---- MODULE Spec2Model ----
(***************************************************************************)
(* Model of epsagon/event.py (BaseEvent) and epsagon/events/requests.py    *)
(* (RequestsEvent, its subclasses and RequestsEventFactory).               *)
(*                                                                         *)
(* Python values are tagged records [t |-> <type name>, v |-> <payload>]:  *)
(* scalars carry their str() rendering, lists and tuples a sequence of     *)
(* values, dicts a function from keys to values.  A dict key is a record   *)
(* [kt |-> <type name>, kv |-> <str() rendering of the key>].              *)
(* Python strings that the code inspects character by character (URLs)     *)
(* are sequences of one-character strings.                                 *)
(***************************************************************************)
EXTENDS Integers, Sequences, FiniteSets, TLC

VARIABLES
    \* ---- one BaseEvent object and the wall clock (time.time()) ----
    event,          \* the attributes of the record
    now,            \* current value of time.time()
    last_call,      \* the method last called on the record
    \* ---- _copy_user_data_safely applied to user data ----
    data,           \* the input value
    copied,         \* _copy_user_data_safely(data)
    copied_twice,   \* _copy_user_data_safely(copied)
    copy_pc,        \* "input" | "copied" | "copied_twice"
    \* ---- load_from_dict / to_dict ----
    rt_input,       \* the representation handed to load_from_dict
    rt_event,       \* the record load_from_dict returned
    rt_output,      \* rt_event.to_dict()
    rt_pc,          \* "input" | "loaded" | "dumped" | "raised"
    \* ---- RequestsEventFactory.create_event ----
    call,           \* the observed (args, response, exception) tuple
    factory_order,  \* iteration order of the factory dict
    fac_pc,         \* "ready" | "returned" | "raised"
    outcome,        \* what the create_event call did
    transport,      \* records that reached the emitter
    stdout          \* lines printed by create_event

vars == <<event, now, last_call, data, copied, copied_twice, copy_pc,
          rt_input, rt_event, rt_output, rt_pc,
          call, factory_order, fac_pc, outcome, transport, stdout>>

eventVars   == <<event, now, last_call>>
copyVars    == <<data, copied, copied_twice, copy_pc>>
rtVars      == <<rt_input, rt_event, rt_output, rt_pc>>
factoryVars == <<call, factory_order, fac_pc, outcome, transport, stdout>>

(***************************************************************************)
(* Bounds of the model.                                                    *)
(***************************************************************************)
MaxClock == 3       \* time.time() ranges over 0..MaxClock
MaxDepth == 2       \* nesting depth of the user data fed to the copy

(***************************************************************************)
(* Values of the variables a specification does not use.                   *)
(***************************************************************************)
Unset == "unset"

EventIdle   == event = Unset /\ now = 0 /\ last_call = "idle"
CopyIdle    == data = Unset /\ copied = Unset /\ copied_twice = Unset /\ copy_pc = "idle"
RtIdle      == rt_input = Unset /\ rt_event = Unset /\ rt_output = Unset /\ rt_pc = "idle"
FactoryIdle == /\ call = Unset /\ factory_order = <<>> /\ fac_pc = "idle"
               /\ outcome = Unset /\ transport = <<>> /\ stdout = <<>>

(***************************************************************************)
(* ErrorCode (epsagon/common.py): the integers sent to the backend.        *)
(***************************************************************************)
OK == 0
ERROR == 1
EXCEPTION == 2
ErrorCodes == {OK, ERROR, EXCEPTION}

(***************************************************************************)
(* Python values.                                                          *)
(***************************************************************************)
PyNone      == [t |-> "NoneType", v |-> "None"]
PyInt(s)    == [t |-> "int", v |-> s]
PyStr(s)    == [t |-> "str", v |-> s]
PyList(s)   == [t |-> "list", v |-> s]
PyTuple(s)  == [t |-> "tuple", v |-> s]
PyDict(f)   == [t |-> "dict", v |-> f]
EmptyDict   == PyDict(<<>>)

KeyStr(s)   == [kt |-> "str", kv |-> s]
KeyNone     == [kt |-> "NoneType", kv |-> "None"]
KeyTuple12  == [kt |-> "tuple", kv |-> "(1, 2)"]
KeyInt1     == [kt |-> "int", kv |-> "1"]

\* isinstance(data, (list, tuple, dict))
IsContainer(d) == d.t \in {"list", "tuple", "dict"}

\* `not data`: None, 0, '' and the empty containers are falsy
Falsy(d) ==
    \/ d.t = "NoneType"
    \/ d.t = "int" /\ d.v = "0"
    \/ d.t = "str" /\ d.v = ""
    \/ d.t \in {"list", "tuple"} /\ Len(d.v) = 0
    \/ d.t = "dict" /\ DOMAIN d.v = {}

\* key is None or not isinstance(key, (str, int, float, bool))
UnsupportedKey(key) == key.kt = "NoneType" \/ key.kt \notin {"str", "int", "float", "bool"}

\* str(key)
StrOfKey(key) == KeyStr(key.kv)

\* The order in which `for key in data` visits the keys.  CPython 2 fixes it
\* by the keys' hashes; two keys of the model coerce to the same string only
\* when one of them already is that string, and the loop never writes under
\* a supported key, so the order does not change the outcome of the loop.
RECURSIVE KeysInOrder(_)
KeysInOrder(keys) ==
    IF keys = {} THEN <<>>
    ELSE LET k == CHOOSE x \in keys : TRUE
         IN  <<k>> \o KeysInOrder(keys \ {k})

\* copied_dict.pop(key)
DictPop(f, key) == [x \in (DOMAIN f) \ {key} |-> f[x]]
\* copied_dict[key] = value
DictSet(f, key, value) == [x \in (DOMAIN f) \cup {key} |-> IF x = key THEN value ELSE f[x]]

RECURSIVE copy_user_data_safely(_)
RECURSIVE CopyDictLoop(_, _, _)

\* A plausible slip: tuples are converted with list(data), only lists are
\* copied element by element.
CopySequenceShallowTuple(d) ==
    IF d.t = "tuple" THEN PyList(d.v)
    ELSE PyList([i \in DOMAIN d.v |-> copy_user_data_safely(d.v[i])])

\* [self._copy_user_data_safely(item) for item in data]
CopySequence(d) ==
    PyList([i \in DOMAIN d.v |-> copy_user_data_safely(d.v[i])])

\* for key in data: ... ; the value is computed for every key and stored
\* only under a coerced key.
CopyDictLoop(d, keys, copied_dict) ==
    IF keys = <<>> THEN copied_dict
    ELSE LET key   == Head(keys)
             value == copy_user_data_safely(d[key])
             next  == IF UnsupportedKey(key)
                      THEN DictSet(DictPop(copied_dict, key), StrOfKey(key), value)
                      ELSE copied_dict
         IN  CopyDictLoop(d, Tail(keys), next)

copy_user_data_safely(d) ==
    IF Falsy(d) \/ ~IsContainer(d) THEN d
    ELSE IF d.t \in {"list", "tuple"} THEN CopySequence(d)
    ELSE PyDict(CopyDictLoop(d.v, KeysInOrder(DOMAIN d.v), d.v))

(***************************************************************************)
(* User data fed to the copy: scalars, empty containers, and containers    *)
(* nested to depth MaxDepth, with supported and unsupported keys and with  *)
(* a key (None) whose string form is another key of the same dict.         *)
(***************************************************************************)
Scalars == {PyNone, PyInt("0"), PyInt("1"), PyStr("s")}
Leaves  == Scalars \cup {PyList(<<>>), PyTuple(<<>>), EmptyDict}
Keys    == {KeyStr("a"), KeyStr("None"), KeyNone, KeyTuple12, KeyInt1}

Wrap(x) ==
    {PyList(<<x>>), PyTuple(<<x>>), PyTuple(<<PyInt("1"), x>>)}
    \cup {PyDict(k :> x) : k \in Keys}
    \cup {PyDict((KeyNone :> x) @@ (KeyStr("None") :> PyInt("1"))),
          PyDict((KeyStr("a") :> x) @@ (KeyTuple12 :> PyTuple(<<PyInt("1")>>)))}

RECURSIVE Level(_)
Level(n) ==
    IF n = 0 THEN Leaves
    ELSE LET below == Level(n - 1)
         IN  Leaves \cup UNION {Wrap(x) : x \in below}

UserData == Level(MaxDepth)

(***************************************************************************)
(* BaseEvent (epsagon/event.py).                                           *)
(*                                                                         *)
(* An operator that models a call which may raise returns Return(value)   *)
(* or Raise(<exception class>).                                            *)
(***************************************************************************)
Return(value) == [raised |-> FALSE, exc |-> "", value |-> value]
Raise(exc)    == [raised |-> TRUE, exc |-> exc, value |-> <<>>]

\* BaseEvent.__init__(self, start_time), called with the positional
\* arguments `posargs` on an instance of a class whose ORIGIN and
\* RESOURCE_TYPE attributes are given.  A call that does not pass exactly
\* one argument for start_time raises TypeError.
BaseEvent_init(ORIGIN, RESOURCE_TYPE, posargs) ==
    IF Len(posargs) # 1 THEN Raise("TypeError")
    ELSE Return(
        [start_time |-> posargs[1],
         event_id   |-> "",
         origin     |-> ORIGIN,
         duration   |-> 0,
         error_code |-> OK,
         exception  |-> <<>>,
         terminated |-> FALSE,
         resource   |-> [type      |-> RESOURCE_TYPE,
                         name      |-> "",
                         operation |-> "",
                         metadata  |-> IF ORIGIN = "runner"
                                       THEN ("trace_id" :> "uuid4")
                                       ELSE <<>>]])

\* The keys load_from_dict reads; a missing one is a KeyError.
KeysRead(event_data) ==
    {"start_time", "id", "origin", "duration", "error_code", "resource"}
    \cup (IF "error_code" \in DOMAIN event_data /\ event_data["error_code"] = EXCEPTION
          THEN {"exception"} ELSE {})

\* A plausible slip: the resource of the freshly built event is kept.
load_from_dict_keeps_resource(event_data) ==
    IF ~(KeysRead(event_data) \subseteq DOMAIN event_data) THEN Raise("KeyError")
    ELSE LET new == BaseEvent_init("base", "base", <<event_data["start_time"]>>).value
         IN  Return([new EXCEPT
                 !.event_id   = event_data["id"],
                 !.origin     = event_data["origin"],
                 !.duration   = event_data["duration"],
                 !.error_code = event_data["error_code"],
                 !.exception  = IF event_data["error_code"] = EXCEPTION
                                THEN event_data["exception"] ELSE @])

load_from_dict(event_data) ==
    IF ~(KeysRead(event_data) \subseteq DOMAIN event_data) THEN Raise("KeyError")
    ELSE LET new == BaseEvent_init("base", "base", <<event_data["start_time"]>>).value
         IN  Return([new EXCEPT
                 !.event_id   = event_data["id"],
                 !.origin     = event_data["origin"],
                 !.duration   = event_data["duration"],
                 !.error_code = event_data["error_code"],
                 !.resource   = event_data["resource"],
                 !.exception  = IF event_data["error_code"] = EXCEPTION
                                THEN event_data["exception"] ELSE @])

to_dict(self) ==
    LET self_as_dict == [id         |-> self.event_id,
                         start_time |-> self.start_time,
                         duration   |-> self.duration,
                         origin     |-> self.origin,
                         error_code |-> self.error_code,
                         resource   |-> self.resource]
    IN  IF self.error_code = EXCEPTION
        THEN ("exception" :> self.exception) @@ self_as_dict
        ELSE self_as_dict

\* A plausible slip: the `if not self.terminated` guard is missing.
terminate_without_latch(self, t) ==
    [self EXCEPT !.duration = t - self.start_time, !.terminated = TRUE]

\* terminate(self), with t the value time.time() returns
terminate(self, t) ==
    IF ~self.terminated
    THEN [self EXCEPT !.duration = t - self.start_time, !.terminated = TRUE]
    ELSE self

\* A plausible slip: the `!= ErrorCode.EXCEPTION` guard is missing.
set_error_unguarded(self) == [self EXCEPT !.error_code = ERROR]

set_error(self) ==
    IF self.error_code # EXCEPTION
    THEN [self EXCEPT !.error_code = ERROR]
    ELSE self

\* What inspect.trace() yields for the frames outside /epsagon that have
\* locals: '<file>/<function>/<line>' -> f_locals.
Frames == PyDict(KeyStr("app.py/handler/12") :> PyDict(KeyStr("x") :> PyInt("1")))

\* The payload set_exception writes into self.exception.  `collect_frames`
\* is (not SHOULD_REMOVE_EXCEPTION_FRAMES and sys.version_info.major == 3);
\* `t` is the value time.time() returns.  self.exception is updated in
\* place, so keys written by an earlier call stay unless written again.
ExceptionPayload(old, exception, traceback_data, handled, from_logs, collect_frames, t) ==
    LET e1  == ("type" :> (IF exception.has_name THEN exception.name ELSE "Unknown"))
               @@ ("message" :> exception.str)
               @@ ("traceback" :> copy_user_data_safely(traceback_data))
               @@ ("time" :> t)
               @@ old
        e2  == IF collect_frames THEN ("frames" :> Frames) @@ e1 ELSE e1
        ad0 == IF "additional_data" \in DOMAIN e2 THEN e2["additional_data"] ELSE <<>>
        ad1 == ("handled" :> handled) @@ ad0
        ad2 == IF from_logs THEN ("from_logs" :> TRUE) @@ ad1 ELSE ad1
    IN  ("additional_data" :> ad2) @@ e2

\* A plausible slip: the error code is set through self.set_error().
set_exception_via_set_error(self, exception, traceback_data, handled, from_logs, collect_frames, t) ==
    [set_error(self) EXCEPT
        !.exception = ExceptionPayload(self.exception, exception, traceback_data,
                                       handled, from_logs, collect_frames, t)]

set_exception(self, exception, traceback_data, handled, from_logs, collect_frames, t) ==
    [self EXCEPT
        !.error_code = EXCEPTION,
        !.exception  = ExceptionPayload(self.exception, exception, traceback_data,
                                        handled, from_logs, collect_frames, t)]

(***************************************************************************)
(* The canonical representations handed to load_from_dict.                 *)
(***************************************************************************)
Resources ==
    {[type |-> "base", name |-> "", operation |-> "", metadata |-> <<>>],
     [type |-> "runner", name |-> "handler", operation |-> "invoke",
      metadata |-> ("trace_id" :> "uuid4")]}

ExceptionObjects ==
    {[has_name |-> TRUE, name |-> "ValueError", str |-> "boom"],
     [has_name |-> FALSE, name |-> "", str |-> "odd"]}

TracebackData ==
    {PyStr("s"), PyDict(KeyTuple12 :> PyTuple(<<PyInt("1")>>))}

\* Payloads as set_exception leaves them
Payloads ==
    {ExceptionPayload(<<>>, e, PyStr("s"), TRUE, fl, FALSE, 0) :
        e \in ExceptionObjects, fl \in BOOLEAN}

RepCore(ids, starts, durations, origins, codes) ==
    [id : ids, start_time : starts, duration : durations, origin : origins,
     error_code : codes, resource : Resources]

\* Well-formed: every key present, and 'exception' exactly when the error
\* code is EXCEPTION.
WellFormedReps(ids, starts, durations, origins) ==
    RepCore(ids, starts, durations, origins, {OK, ERROR})
    \cup {("exception" :> p) @@ r :
            r \in RepCore(ids, starts, durations, origins, {EXCEPTION}),
            p \in Payloads}

(***************************************************************************)
(* SpecEvent: one record, built by the constructor or by load_from_dict,   *)
(* under any sequence of terminate, set_error and set_exception calls      *)
(* while the clock advances.                                               *)
(***************************************************************************)
InitEvent ==
    /\ now \in 0..1
    /\ \/ /\ \E st \in 0..1, origin \in {"base", "runner"} :
                event = BaseEvent_init(origin, "base", <<st>>).value
          /\ last_call = "__init__"
       \/ /\ \E x \in WellFormedReps({"requests-uuid4"}, 0..1, 0..1, {"runner", "requests"}) :
                event = load_from_dict(x).value
          /\ last_call = "load_from_dict"
    /\ CopyIdle /\ RtIdle /\ FactoryIdle

Terminate ==
    /\ event' = terminate(event, now)
    /\ last_call' = "terminate"
    /\ UNCHANGED <<now, copyVars, rtVars, factoryVars>>

SetError ==
    /\ event' = set_error(event)
    /\ last_call' = "set_error"
    /\ UNCHANGED <<now, copyVars, rtVars, factoryVars>>

SetException ==
    /\ \E exception \in ExceptionObjects, traceback_data \in TracebackData,
          handled \in BOOLEAN, from_logs \in BOOLEAN, collect_frames \in BOOLEAN :
            event' = set_exception(event, exception, traceback_data,
                                   handled, from_logs, collect_frames, now)
    /\ last_call' = "set_exception"
    /\ UNCHANGED <<now, copyVars, rtVars, factoryVars>>

Tick ==
    /\ now < MaxClock
    /\ now' = now + 1
    /\ UNCHANGED <<event, last_call, copyVars, rtVars, factoryVars>>

NextEvent == Terminate \/ SetError \/ SetException \/ Tick

SpecEvent == InitEvent /\ [][NextEvent]_vars

(***************************************************************************)
(* SpecRoundTrip: load_from_dict applied to a representation, then to_dict *)
(* applied to the record it returned.                                      *)
(***************************************************************************)
\* Every key present, and 'exception' exactly when the error code is
\* EXCEPTION
WellFormedRep(x) ==
    /\ {"id", "start_time", "duration", "origin", "error_code", "resource"} \subseteq DOMAIN x
    /\ DOMAIN x \subseteq {"id", "start_time", "duration", "origin", "error_code",
                           "resource", "exception"}
    /\ ("exception" \in DOMAIN x) <=> (x["error_code"] = EXCEPTION)

\* Representations that are not well-formed: a required key is missing, or
\* an 'exception' key comes with another error code
IllFormedReps ==
    {[id |-> "", start_time |-> 0, duration |-> 0, origin |-> "base",
      error_code |-> EXCEPTION,
      resource |-> [type |-> "base", name |-> "", operation |-> "", metadata |-> <<>>]],
     [id |-> "", start_time |-> 0, duration |-> 0, error_code |-> OK],
     [id |-> "", start_time |-> 0, duration |-> 0, origin |-> "base",
      error_code |-> ERROR,
      resource |-> [type |-> "base", name |-> "", operation |-> "", metadata |-> <<>>],
      exception |-> <<>>]}

InitRoundTrip ==
    /\ rt_input \in WellFormedReps({"", "requests-uuid4"}, 0..MaxClock, 0..MaxClock,
                                     {"runner", "base"})
                      \cup IllFormedReps
    /\ rt_event = Unset /\ rt_output = Unset /\ rt_pc = "input"
    /\ EventIdle /\ CopyIdle /\ FactoryIdle

LoadFromDict ==
    /\ rt_pc = "input"
    /\ LET r == load_from_dict(rt_input)
       IN  IF r.raised
           THEN rt_pc' = "raised" /\ rt_event' = r.exc
           ELSE rt_pc' = "loaded" /\ rt_event' = r.value
    /\ UNCHANGED <<rt_input, rt_output, eventVars, copyVars, factoryVars>>

ToDict ==
    /\ rt_pc = "loaded"
    /\ rt_output' = to_dict(rt_event)
    /\ rt_pc' = "dumped"
    /\ UNCHANGED <<rt_input, rt_event, eventVars, copyVars, factoryVars>>

NextRoundTrip == LoadFromDict \/ ToDict

SpecRoundTrip == InitRoundTrip /\ [][NextRoundTrip]_vars

(***************************************************************************)
(* Strings the request classifier inspects, as character sequences.        *)
(***************************************************************************)
TAG_auth0 ==
    <<"a", "u", "t", "h", "0">>
TAG_twilio ==
    <<"t", "w", "i", "l", "i", "o">>
TAG_googleapis ==
    <<"g", "o", "o", "g", "l", "e", "a", "p", "i", "s">>
TAG_outlook_office ==
    <<"o", "u", "t", "l", "o", "o", "k", ".", "o", "f", "f", "i", "c", "e">>
API_TAG ==
    <<"/", "a", "p", "i", "/", "v", "2", "/">>
GOOGLE_PREFIX ==
    <<"g", "o", "o", "g", "l", "e", "_">>
URL_oauth_token ==
    <<"h", "t", "t", "p", "s", ":", "/", "/", "a", "c", "c", "o", "u",
      "n", "t", "s", ".", "g", "o", "o", "g", "l", "e", ".", "c", "o",
      "m", "/", "o", "/", "o", "a", "u", "t", "h", "2", "/", "t", "o",
      "k", "e", "n">>
URL_twilio ==
    <<"h", "t", "t", "p", "s", ":", "/", "/", "a", "p", "i", ".", "t",
      "w", "i", "l", "i", "o", ".", "c", "o", "m", "/", "2", "0", "1",
      "0", "-", "0", "4", "-", "0", "1", "/", "A", "c", "c", "o", "u",
      "n", "t", "s", "/", "A", "C", "1", "2", "3", "/", "M", "e", "s",
      "s", "a", "g", "e", "s", ".", "j", "s", "o", "n">>
PATH_twilio ==
    <<"/", "2", "0", "1", "0", "-", "0", "4", "-", "0", "1", "/", "A",
      "c", "c", "o", "u", "n", "t", "s", "/", "A", "C", "1", "2", "3",
      "/", "M", "e", "s", "s", "a", "g", "e", "s", ".", "j", "s", "o", "n">>
URL_auth0 ==
    <<"h", "t", "t", "p", "s", ":", "/", "/", "t", "e", "n", "a", "n",
      "t", ".", "a", "u", "t", "h", "0", ".", "c", "o", "m", "/", "a",
      "p", "i", "/", "v", "2", "/", "u", "s", "e", "r", "s">>
PATH_auth0 ==
    <<"/", "a", "p", "i", "/", "v", "2", "/", "u", "s", "e", "r", "s">>
URL_googleapis ==
    <<"h", "t", "t", "p", "s", ":", "/", "/", "w", "w", "w", ".", "g",
      "o", "o", "g", "l", "e", "a", "p", "i", "s", ".", "c", "o", "m",
      "/", "c", "a", "l", "e", "n", "d", "a", "r", "/", "v", "3", "/",
      "e", "v", "e", "n", "t", "s">>
PATH_googleapis ==
    <<"/", "c", "a", "l", "e", "n", "d", "a", "r", "/", "v", "3", "/",
      "e", "v", "e", "n", "t", "s">>
URL_outlook ==
    <<"h", "t", "t", "p", "s", ":", "/", "/", "o", "u", "t", "l", "o",
      "o", "k", ".", "o", "f", "f", "i", "c", "e", ".", "c", "o", "m",
      "/", "a", "p", "i", "/", "v", "2", ".", "0", "/", "m", "e", "/",
      "m", "e", "s", "s", "a", "g", "e", "s">>
PATH_outlook ==
    <<"/", "a", "p", "i", "/", "v", "2", ".", "0", "/", "m", "e", "/",
      "m", "e", "s", "s", "a", "g", "e", "s">>
URL_generic ==
    <<"h", "t", "t", "p", "s", ":", "/", "/", "e", "x", "a", "m", "p",
      "l", "e", ".", "c", "o", "m", "/", "i", "n", "d", "e", "x">>
PATH_generic ==
    <<"/", "i", "n", "d", "e", "x">>
PATH_oauth_token ==
    <<"/", "o", "/", "o", "a", "u", "t", "h", "2", "/", "t", "o", "k",
      "e", "n">>
URL_two_tags ==
    <<"h", "t", "t", "p", "s", ":", "/", "/", "A", "U", "T", "H", "0",
      ".", "T", "w", "i", "l", "i", "o", ".", "c", "o", "m", "/", "x">>
PATH_two_tags ==
    <<"/", "x">>

UPPERCASE ==
    <<"A", "B", "C", "D", "E", "F", "G", "H", "I", "J", "K", "L", "M",
      "N", "O", "P", "Q", "R", "S", "T", "U", "V", "W", "X", "Y", "Z">>
LOWERCASE ==
    <<"a", "b", "c", "d", "e", "f", "g", "h", "i", "j", "k", "l", "m",
      "n", "o", "p", "q", "r", "s", "t", "u", "v", "w", "x", "y", "z">>

\* str.lower()
lower(str) ==
    [i \in DOMAIN str |->
        IF \E j \in DOMAIN UPPERCASE : UPPERCASE[j] = str[i]
        THEN LOWERCASE[CHOOSE j \in DOMAIN UPPERCASE : UPPERCASE[j] = str[i]]
        ELSE str[i]]

\* `sub in str`
Contains(sub, str) ==
    \E i \in 0..(Len(str) - Len(sub)) : SubSeq(str, i + 1, i + Len(sub)) = sub

\* str.find(sub): the 0-based index of the first occurrence, or -1
Find(str, sub) ==
    LET hits == {i \in 0..(Len(str) - Len(sub)) : SubSeq(str, i + 1, i + Len(sub)) = sub}
    IN  IF hits = {} THEN -1 ELSE CHOOSE i \in hits : \A j \in hits : i <= j

\* str[start:], start a 0-based index >= 0
SliceFrom(str, start) == SubSeq(str, start + 1, Len(str))

\* str.split('/')
RECURSIVE Split(_)
Split(str) ==
    LET i == Find(str, <<"/">>)
    IN  IF i = -1 THEN <<str>>
        ELSE <<SubSeq(str, 1, i)>> \o Split(SliceFrom(str, i + 1))

\* '/'.join(parts)
RECURSIVE Join(_)
Join(parts) ==
    IF Len(parts) = 0 THEN <<>>
    ELSE IF Len(parts) = 1 THEN parts[1]
    ELSE parts[1] \o <<"/">> \o Join(Tail(parts))

\* parts[-n:]
LastParts(parts, n) ==
    IF Len(parts) <= n THEN parts ELSE SubSeq(parts, Len(parts) - n + 1, Len(parts))

\* urlparse(url) of Python 2: the scheme ends at the first ':', the network
\* location follows '//' and ends before the first of '/', '?', '#'; the
\* path ends before the first of '?', '#'.
AfterScheme(url) ==
    LET i == Find(url, <<":">>)
    IN  IF i > 0 THEN SliceFrom(url, i + 1) ELSE url

FirstOf(str, chars, from) ==
    LET hits == {i \in from..Len(str) : str[i] \in chars}
    IN  IF hits = {} THEN Len(str) + 1 ELSE CHOOSE i \in hits : \A j \in hits : i <= j

HasNetloc(rest) == Len(rest) >= 2 /\ rest[1] = "/" /\ rest[2] = "/"

urlparse_netloc(url) ==
    LET rest == AfterScheme(url)
    IN  IF HasNetloc(rest)
        THEN SubSeq(rest, 3, FirstOf(rest, {"/", "?", "#"}, 3) - 1)
        ELSE <<>>

urlparse_path(url) ==
    LET rest  == AfterScheme(url)
        start == IF HasNetloc(rest) THEN FirstOf(rest, {"/", "?", "#"}, 3) ELSE 1
    IN  SubSeq(rest, start, FirstOf(rest, {"?", "#"}, start) - 1)

(***************************************************************************)
(* RequestsEvent and its subclasses (epsagon/events/requests.py).          *)
(*                                                                         *)
(* An object handed in by the instrumentation layer is a record whose      *)
(* `attrs` holds the names of the attributes it has; reading another one   *)
(* raises AttributeError.  None is the record with is_none = TRUE.         *)
(***************************************************************************)
BLACKLIST_URLS == {URL_oauth_token}

TAG_requests ==
    <<"r", "e", "q", "u", "e", "s", "t", "s">>

\* RequestsEvent.__subclasses__()
Subclasses == {"RequestsAuth0Event", "RequestsTwilioEvent",
               "RequestsGoogleAPIEvent", "RequestsOutlookOfficeEvent"}

\* The EVENT_TYPE class attribute
EVENT_TYPE(cls) ==
    CASE cls = "RequestsEvent"              -> TAG_requests
      [] cls = "RequestsAuth0Event"         -> TAG_auth0
      [] cls = "RequestsTwilioEvent"        -> TAG_twilio
      [] cls = "RequestsGoogleAPIEvent"     -> TAG_googleapis
      [] cls = "RequestsOutlookOfficeEvent" -> TAG_outlook_office

\* The methods class BaseEvent defines
BaseEventMethods ==
    {"__init__", "load_from_dict", "to_dict", "terminate", "set_error",
     "_copy_user_data_safely", "set_exception"}

\* update_response, lines 44-52: status code, headers and the JSON body, or
\* None when response.json() raises ValueError
WithResponseMetadata(self, response) ==
    [self EXCEPT !["metadata"] =
        ("status_code" :> response.status_code)
        @@ ("response_headers" :> response.headers)
        @@ ("response_body" :> (IF response.json_raises_ValueError
                                THEN PyNone ELSE response.json_value))
        @@ @]

\* RequestsEvent.update_response(self, response)
update_response(self, response) ==
    IF ~({"status_code", "headers", "json"} \subseteq response.attrs)
    THEN Raise("AttributeError")
    ELSE Return(IF response.status_code >= 300
                THEN set_error(WithResponseMetadata(self, response))
                ELSE WithResponseMetadata(self, response))

\* RequestsEvent.__init__, lines 40-41: `if exception is not None`, on the
\* result `r` of the statements before it
MarkException(r, exception) ==
    IF r.raised THEN r
    ELSE Return(IF ~exception.is_none THEN set_error(r.value) ELSE r.value)

\* RequestsEvent.__init__, lines 25-35: the attributes set on `self` from
\* the class and the prepared request
WithRequestFields(self, cls, prepared_request) ==
    ("event_id" :> "requests-uuid4")
    @@ ("resource_name" :> EVENT_TYPE(cls))
    @@ ("event_operation" :> prepared_request.method)
    @@ ("metadata" :> [method       |-> prepared_request.method,
                       url          |-> prepared_request.url,
                       request_body |-> prepared_request.body])
    @@ self

\* RequestsEvent.__init__, lines 37-38: `if response is not None`
FoldResponse(self, response) ==
    IF ~response.is_none THEN update_response(self, response) ELSE Return(self)

\* RequestsEvent.__init__, lines 25-41, on the object `base` that
\* BaseEvent.__init__ initialised
InitFields(base, cls, args, response, exception) ==
    IF base.raised THEN base
    ELSE IF Len(args) = 0 THEN Raise("IndexError")
    ELSE IF ~({"method", "url", "body"} \subseteq args[1].attrs) THEN Raise("AttributeError")
    ELSE MarkException(FoldResponse(WithRequestFields(base.value, cls, args[1]), response),
                       exception)

\* RequestsEvent.__init__ run on an instance of class `cls`.  Its first
\* statement, super(RequestsEvent, self).__init__(), passes BaseEvent.__init__
\* no start_time.
RequestsEvent_init(cls, args, response, exception) ==
    InitFields(BaseEvent_init("base", "base", <<>>), cls, args, response, exception)

\* url[url.find(self.API_TAG) + len(self.API_TAG):]
Auth0Operation(url) == SliceFrom(url, Find(url, API_TAG) + Len(API_TAG))

\* prepared_request.path_url.split('/')[-1]
LastPart(parts) == parts[Len(parts)]

\* The statements of a subclass constructor after the super().__init__ call
\* returned `r`: they read prepared_request.path_url (and, for the Google
\* API class, the second '/'-separated part of the URL's path).
SetOperation(r, cls, args) ==
    IF r.raised THEN r
    ELSE IF "path_url" \notin args[1].attrs THEN Raise("AttributeError")
    ELSE CASE cls = "RequestsAuth0Event" ->
                Return(("event_operation" :> Auth0Operation(args[1].path_url)) @@ r.value)
           [] cls = "RequestsTwilioEvent" ->
                Return(("event_operation" :> LastPart(Split(args[1].path_url))) @@ r.value)
           [] cls = "RequestsGoogleAPIEvent" ->
                IF Len(Split(urlparse_path(args[1].url))) < 2 THEN Raise("IndexError")
                ELSE Return(("event_operation" :> Join(LastParts(Split(args[1].path_url), 2)))
                            @@ ("event_type" :>
                                    GOOGLE_PREFIX \o Split(urlparse_path(args[1].url))[2])
                            @@ r.value)
           [] cls = "RequestsOutlookOfficeEvent" ->
                Return(("event_operation" :> Join(LastParts(Split(args[1].path_url), 2)))
                       @@ r.value)

RequestsAuth0Event_init(args, response, exception) ==
    SetOperation(RequestsEvent_init("RequestsAuth0Event", args, response, exception),
                 "RequestsAuth0Event", args)

RequestsTwilioEvent_init(args, response, exception) ==
    SetOperation(RequestsEvent_init("RequestsTwilioEvent", args, response, exception),
                 "RequestsTwilioEvent", args)

RequestsGoogleAPIEvent_init(args, response, exception) ==
    SetOperation(RequestsEvent_init("RequestsGoogleAPIEvent", args, response, exception),
                 "RequestsGoogleAPIEvent", args)

RequestsOutlookOfficeEvent_init(args, response, exception) ==
    SetOperation(RequestsEvent_init("RequestsOutlookOfficeEvent", args, response, exception),
                 "RequestsOutlookOfficeEvent", args)

\* instance_type(wrapped, instance, args, kwargs, response, exception)
Construct(instance_type, args, response, exception) ==
    CASE instance_type = "RequestsEvent" ->
            RequestsEvent_init("RequestsEvent", args, response, exception)
      [] instance_type = "RequestsAuth0Event" ->
            RequestsAuth0Event_init(args, response, exception)
      [] instance_type = "RequestsTwilioEvent" ->
            RequestsTwilioEvent_init(args, response, exception)
      [] instance_type = "RequestsGoogleAPIEvent" ->
            RequestsGoogleAPIEvent_init(args, response, exception)
      [] instance_type = "RequestsOutlookOfficeEvent" ->
            RequestsOutlookOfficeEvent_init(args, response, exception)

\* RequestsEvent.add_event(self): Return(TRUE) when the event went to the
\* emitter, Return(FALSE) when the deny-list suppressed it.
\* super(RequestsEvent, self).add_event() looks add_event up on BaseEvent.
add_event(self) ==
    IF self["metadata"].url \in BLACKLIST_URLS THEN Return(FALSE)
    ELSE IF "add_event" \notin BaseEventMethods THEN Raise("AttributeError")
    ELSE Return(TRUE)

\* `api_name in base_url.lower()` for the entries of the factory dict, by
\* their position in its iteration order `order`
Matching(base_url, order) ==
    {i \in DOMAIN order : Contains(EVENT_TYPE(order[i]), lower(base_url))}

\* max(positions)
Last(positions) == CHOOSE i \in positions : \A j \in positions : j <= i

\* The loop `for api_name in factory: if api_name in base_url.lower(): ...`
\* over the factory dict in its iteration order `order`: the last matching
\* entry stays assigned.
SelectInstanceType(base_url, order) ==
    IF Matching(base_url, order) = {} THEN "RequestsEvent"
    ELSE order[Last(Matching(base_url, order))]

NoEvent == <<>>

Outcome(escaped, instance_type, constructed, ev, add_event_called, emitted, printed) ==
    [escaped          |-> escaped,          \* exception that left create_event, or ""
     instance_type    |-> instance_type,    \* class picked by the loop, or ""
     constructed      |-> constructed,      \* the constructor returned
     event            |-> ev,               \* the object it returned
     add_event_called |-> add_event_called, \* event.add_event() was called
     emitted          |-> emitted,          \* the event went to the emitter
     printed          |-> printed]          \* exception named on stdout, or ""

\* create_event, line 144 and the except clause: event.add_event() returned
\* or raised `added` on the constructed `ev`
AfterAddEvent(instance_type, ev, added) ==
    IF added.raised
    THEN Outcome("", instance_type, TRUE, ev, TRUE, FALSE, added.exc)
    ELSE Outcome("", instance_type, TRUE, ev, TRUE, added.value, "")

\* create_event, lines 142-146: the try block, the constructor having
\* returned or raised `built`
TryBlock(instance_type, built) ==
    IF built.raised
    THEN Outcome("", instance_type, FALSE, NoEvent, FALSE, FALSE, built.exc)
    ELSE AfterAddEvent(instance_type, built.value, add_event(built.value))

\* create_event, lines 134-146, with the class the loop selected
WithInstanceType(instance_type, args, response, exception) ==
    TryBlock(instance_type, Construct(instance_type, args, response, exception))

\* RequestsEventFactory.create_event(wrapped, instance, args, kwargs,
\* response, exception), the factory dict iterating in `order`.  Lines
\* 131-132 run outside the try block.
create_event(args, response, exception, order) ==
    IF Len(args) = 0
    THEN Outcome("IndexError", "", FALSE, NoEvent, FALSE, FALSE, "")
    ELSE IF "url" \notin args[1].attrs
    THEN Outcome("AttributeError", "", FALSE, NoEvent, FALSE, FALSE, "")
    ELSE WithInstanceType(SelectInstanceType(urlparse_netloc(args[1].url), order),
                          args, response, exception)

(***************************************************************************)
(* The call tuples the instrumentation layer hands to create_event.        *)
(***************************************************************************)
Request(attrs, url, path_url) ==
    [attrs |-> attrs, method |-> "GET", url |-> url, body |-> "payload", path_url |-> path_url]

RequestAttrs == {"method", "url", "body", "path_url"}

WellFormedRequests ==
    {Request(RequestAttrs, URL_twilio, PATH_twilio),
     Request(RequestAttrs, URL_auth0, PATH_auth0),
     Request(RequestAttrs, URL_googleapis, PATH_googleapis),
     Request(RequestAttrs, URL_outlook, PATH_outlook),
     Request(RequestAttrs, URL_generic, PATH_generic),
     Request(RequestAttrs, URL_oauth_token, PATH_oauth_token),
     Request(RequestAttrs, URL_two_tags, PATH_two_tags)}

MalformedRequests ==
    {Request(RequestAttrs \ {a}, URL_twilio, PATH_twilio) : a \in RequestAttrs}

Response(attrs, status_code, json_raises_ValueError) ==
    [is_none |-> FALSE, attrs |-> attrs, status_code |-> status_code,
     headers |-> ("Content-Type" :> "application/json"),
     json_raises_ValueError |-> json_raises_ValueError,
     json_value |-> PyDict(KeyStr("a") :> PyInt("1"))]

ResponseAttrs == {"status_code", "headers", "json"}

NoResponse ==
    [is_none |-> TRUE, attrs |-> {}, status_code |-> 0, headers |-> <<>>,
     json_raises_ValueError |-> FALSE, json_value |-> PyNone]

StatusCodes == {200, 299, 300, 404}

WellFormedResponses ==
    {Response(ResponseAttrs, sc, jr) : sc \in StatusCodes, jr \in BOOLEAN}

MalformedResponses ==
    {Response(ResponseAttrs \ {a}, 200, FALSE) : a \in ResponseAttrs}

NoException   == [is_none |-> TRUE, name |-> ""]
SomeException == [is_none |-> FALSE, name |-> "ConnectionError"]

Calls ==
    [args      : {<<>>} \cup {<<r>> : r \in WellFormedRequests \cup MalformedRequests},
     response  : WellFormedResponses \cup MalformedResponses \cup {NoResponse},
     exception : {NoException, SomeException}]

\* The orders in which the four-entry factory dict can iterate
FactoryOrders ==
    {order \in [1..Cardinality(Subclasses) -> Subclasses] :
        \A i, j \in DOMAIN order : order[i] = order[j] => i = j}

(***************************************************************************)
(* SpecFactory: one create_event call on an observed call tuple.           *)
(***************************************************************************)
InitFactory ==
    /\ call \in Calls
    /\ factory_order \in FactoryOrders
    /\ fac_pc = "ready"
    /\ outcome = Unset /\ transport = <<>> /\ stdout = <<>>
    /\ EventIdle /\ CopyIdle /\ RtIdle

CreateEvent ==
    /\ fac_pc = "ready"
    /\ LET o == create_event(call.args, call.response, call.exception, factory_order)
       IN  /\ outcome' = o
           /\ fac_pc' = IF o.escaped # "" THEN "raised" ELSE "returned"
           /\ transport' = IF o.emitted THEN Append(transport, o.event) ELSE transport
           /\ stdout' = IF o.printed # ""
                        THEN Append(stdout, <<"Epsagon Error: Could not create requests event", o.printed>>)
                        ELSE stdout
    /\ UNCHANGED <<call, factory_order, eventVars, copyVars, rtVars>>

NextFactory == CreateEvent

SpecFactory == InitFactory /\ [][NextFactory]_vars

(***************************************************************************)
(* SpecCopy: _copy_user_data_safely applied to a value, then to its own    *)
(* result.                                                                 *)
(***************************************************************************)
InitCopy ==
    /\ data \in UserData
    /\ copied = Unset /\ copied_twice = Unset /\ copy_pc = "input"
    /\ EventIdle /\ RtIdle /\ FactoryIdle

Copy ==
    /\ copy_pc = "input"
    /\ copied' = copy_user_data_safely(data)
    /\ copy_pc' = "copied"
    /\ UNCHANGED <<data, copied_twice, eventVars, rtVars, factoryVars>>

CopyAgain ==
    /\ copy_pc = "copied"
    /\ copied_twice' = copy_user_data_safely(copied)
    /\ copy_pc' = "copied_twice"
    /\ UNCHANGED <<data, copied, eventVars, rtVars, factoryVars>>

NextCopy == Copy \/ CopyAgain

SpecCopy == InitCopy /\ [][NextCopy]_vars

(***************************************************************************)
(* Properties.                                                             *)
(***************************************************************************)

\* A call tuple whose args[0] and response expose every field the classifier
\* reads
WellFormedCall(c) ==
    /\ Len(c.args) = 1
    /\ RequestAttrs \subseteq c.args[1].attrs
    /\ c.response.is_none \/ ResponseAttrs \subseteq c.response.attrs

FactoryDone == fac_pc \in {"returned", "raised"}

\* C1: create_event never lets a failure escape to its caller: for every call
\* tuple, malformed ones included, it returns normally, and a failure to
\* build the event is logged and emits nothing.
C1_NoFailureEscapes ==
    FactoryDone =>
        /\ fac_pc = "returned"
        /\ outcome.escaped = ""
        /\ ~outcome.constructed => (Len(stdout) = 1 /\ transport = <<>>)

\* The error-code transitions a record may make
AllowedTransitions ==
    {<<OK, ERROR>>, <<OK, EXCEPTION>>, <<ERROR, EXCEPTION>>}
    \cup {<<c, c>> : c \in ErrorCodes}

\* C2: the error code is monotonic under every sequence of set_error,
\* set_exception and terminate calls: only OK->ERROR, OK->EXCEPTION,
\* ERROR->EXCEPTION and self-loops occur, a set_error call leaves EXCEPTION
\* in place and otherwise yields ERROR, never EXCEPTION.
C2_ErrorCodeMonotonic ==
    [][/\ <<event.error_code, event'.error_code>> \in AllowedTransitions
       /\ last_call' = "set_error" =>
            event'.error_code = (IF event.error_code = EXCEPTION THEN EXCEPTION ELSE ERROR)
      ]_vars

\* C2 witness: set_error was the last call on a record whose code is
\* EXCEPTION
C2_Witness ==
    /\ last_call = "set_error"
    /\ event.error_code = EXCEPTION

\* The longest registered tag that is a substring of the lowercased network
\* location of `url`, or the generic tag
MostSpecificTag(url) ==
    LET matching == {cls \in Subclasses :
                        Contains(EVENT_TYPE(cls), lower(urlparse_netloc(url)))}
    IN  IF matching = {} THEN TAG_requests
        ELSE EVENT_TYPE(CHOOSE cls \in matching :
                \A other \in matching : Len(EVENT_TYPE(other)) <= Len(EVENT_TYPE(cls)))

\* C3: for every well-formed call tuple create_event produces exactly one
\* record, whose subtype is the most specific registered tag that is a
\* substring of the lowercased network location of the URL, or the generic
\* subtype when none is, whatever the iteration order of the registry.
C3_OneRecordOfMostSpecificSubtype ==
    (FactoryDone /\ WellFormedCall(call)) =>
        /\ outcome.constructed
        /\ outcome.event["resource_name"] = MostSpecificTag(call.args[1].url)

\* No mapping anywhere inside `d` has a key that is None or is not a string,
\* integer, float or boolean
RECURSIVE SerializerSafe(_)
SerializerSafe(d) ==
    IF d.t \in {"list", "tuple"} THEN \A i \in DOMAIN d.v : SerializerSafe(d.v[i])
    ELSE IF d.t = "dict"
    THEN \A key \in DOMAIN d.v : ~UnsupportedKey(key) /\ SerializerSafe(d.v[key])
    ELSE TRUE

\* C4: the result of _copy_user_data_safely is serializer-safe at every
\* nesting depth, and for an entry of an input mapping whose key is already
\* supported the result holds the copy of that entry's value.
C4_CopyIsSerializerSafe ==
    copy_pc \in {"copied", "copied_twice"} =>
        /\ SerializerSafe(copied)
        /\ (data.t = "dict" /\ DOMAIN data.v = {KeyStr("a")}) =>
                copied.v[KeyStr("a")] = copy_user_data_safely(data.v[KeyStr("a")])

\* C5: for every well-formed representation x, of each error code and of
\* origin 'runner' as of other origins, load_from_dict(x).to_dict() equals x.
C5_RoundTrip ==
    (rt_pc = "dumped" /\ WellFormedRep(rt_input)) => rt_output = rt_input

\* C5 witness: a representation of origin 'runner' with an exception payload
\* and a resource of its own went through load_from_dict and to_dict
C5_Witness ==
    /\ rt_pc = "dumped"
    /\ rt_input["origin"] = "runner"
    /\ rt_input["error_code"] = EXCEPTION
    /\ rt_input["resource"].type = "runner"
    /\ rt_input["duration"] > 0

\* C6: terminate is an idempotent one-way latch: the first terminate call
\* sets duration to now - start_time and sets terminated; from then on no
\* call, at any clock value, changes duration or terminated.
C6_TerminateLatch ==
    [][/\ event.terminated => (event'.terminated /\ event'.duration = event.duration)
       /\ (last_call' = "terminate" /\ ~event.terminated) =>
            (event'.terminated /\ event'.duration = now - event.start_time)
      ]_vars

\* C6 witness: terminate was called again on a terminated record, after the
\* clock advanced and after set_exception, and duration is still the one
\* the first call computed
C6_Witness ==
    /\ last_call = "terminate"
    /\ event.terminated
    /\ event.error_code = EXCEPTION
    /\ event.exception["time"] > event.start_time + event.duration
    /\ now - event.start_time # event.duration

\* C7: _copy_user_data_safely is idempotent on its own output.
C7_CopyIdempotent ==
    copy_pc = "copied_twice" => copied_twice = copied

\* C7 witness: a dict with the key None beside the key 'None', holding a
\* tuple, was copied twice, and the first copy changed it
C7_Witness ==
    /\ copy_pc = "copied_twice"
    /\ data.t = "dict"
    /\ {KeyNone, KeyStr("None")} \subseteq DOMAIN data.v
    /\ data.v[KeyNone].t = "tuple"
    /\ Len(data.v[KeyNone].v) > 0
    /\ copied # data

\* C8: the exception payload is populated if and only if error_code is
\* EXCEPTION, and to_dict has the 'exception' key if and only if error_code
\* is EXCEPTION.
C8_ExceptionIffExceptionCode ==
    /\ (DOMAIN event.exception # {}) <=> (event.error_code = EXCEPTION)
    /\ ("exception" \in DOMAIN to_dict(event)) <=> (event.error_code = EXCEPTION)

\* C8 witness: a record built by the constructor was marked with set_error
\* after set_exception had populated the payload
C8_Witness ==
    /\ last_call = "set_error"
    /\ event.event_id = ""
    /\ "traceback" \in DOMAIN event.exception
    /\ "exception" \in DOMAIN to_dict(event)

\* The observed call failed: status code >= 300, or an exception supplied
CallFailed(c) ==
    \/ ~c.response.is_none /\ c.response.status_code >= 300
    \/ ~c.exception.is_none

\* C9: the record the classifier builds for an observed call has error_code
\* ERROR when the call failed and OK otherwise.
C9_FailedCallMarkedError ==
    (FactoryDone /\ WellFormedCall(call)) =>
        /\ outcome.constructed
        /\ outcome.event["error_code"] = (IF CallFailed(call) THEN ERROR ELSE OK)

\* C10: deny-list suppression is the last step: the record is constructed
\* with its metadata populated, then add_event is reached, and for a URL on
\* the deny-list nothing reaches the transport.
C10_SuppressionAfterConstruction ==
    (FactoryDone /\ WellFormedCall(call)) =>
        /\ outcome.constructed
        /\ {"method", "url", "request_body"} \subseteq DOMAIN outcome.event["metadata"]
        /\ ~call.response.is_none =>
                {"status_code", "response_headers", "response_body"}
                    \subseteq DOMAIN outcome.event["metadata"]
        /\ outcome.add_event_called
        /\ call.args[1].url \in BLACKLIST_URLS => transport = <<>>

====
